---- MODULE Spec2Model ----
(***************************************************************************)
(* Job lifecycle of the AHDL simulation services.                          *)
(*                                                                         *)
(*   database/job_queue.py        the Job Store (Redis hashes "job:<id>"   *)
(*                                and the Redis list "jobs") and the       *)
(*                                Dispatcher's push in create_job          *)
(*   simulation/app/api/simulation.py   the push entry point and its       *)
(*                                background task                          *)
(*   simulation/app/worker.py     the Poller loop                          *)
(*   simulation/app/services/simulate.py   the Executor (run_simulation)   *)
(*                                                                         *)
(* Every HTTP handler of the store is an async function without an await,  *)
(* so one handler runs to its end before the next one starts: each store   *)
(* operation is one atomic action.  run_simulation is a blocking call, in  *)
(* the worker's loop and in the simulation service's event loop alike.     *)
(***************************************************************************)
EXTENDS Integers, Sequences, FiniteSets, TLC

\* ------------------------------------------------------------ bounds
\* Job ids a client can put in config['job_id']: 1..NumIds.
NumIds == 2
\* Largest simulation_steps of a submitted config.
MaxSteps == 2
\* Largest number of drones with has_motion in a submitted config.
MaxMoving == 1
\* Number of POST /jobs calls in a behaviour.
MaxCreates == 2
\* Number of DELETE /jobs/{id} calls that find the job in a behaviour.
MaxDeletes == 1
\* The clock stops advancing at MaxTime.
MaxTime == 1

\* ------------------------------------------------------------ values
\* config.get('job_id') finds no key: no client id is 0.
NoId == 0
\* Optional[dict]: None is the empty tuple, a dict {"results": x} the tuple <<x>>.
None == <<>>
ClientIds == 1 .. NumIds

\* str(uuid.uuid4()): the n-th generated id; never equal to a client id.
Uuid(n) == 100 + n

JobIds == ClientIds \cup { Uuid(n) : n \in 1 .. (MaxCreates + 1) }

\* A submitted config, as far as the lifecycle reads it: job_id (may be
\* missing), whether the rest validates against Config, simulation_steps,
\* move_together and the number of drones with has_motion.
MkConfig(j, ok, n, mt, mv) ==
    [job_id |-> j, shape_ok |-> ok, simulation_steps |-> n,
     move_together |-> mt, moving |-> mv]

\* The configs clients submit: synchronized runs of every length for every
\* client id, one independent run, one config that does not validate and one
\* without a job_id.
Configs ==
    { MkConfig(j, TRUE, n, TRUE, 0) : j \in ClientIds, n \in 1 .. MaxSteps }
    \cup { MkConfig(1, TRUE, MaxSteps, FALSE, MaxMoving) }
    \cup { MkConfig(1, FALSE, 1, TRUE, 0) }
    \cup { MkConfig(NoId, TRUE, 1, TRUE, 0) }

\* Config(**cfg) / JobRequest validation: job_id is a required field.
Valid(c) == c.shape_ok /\ c.job_id # NoId

\* ------------------------------------------------------------ codecs
\* json.dumps / json.loads of a stored field.
JsonDumps(v) == <<"json", v>>
JsonLoads(s) == s[2]
\* Redis keeps an integer field as its decimal string; int() reads it back.
RedisStr(n) == <<"str", n>>
ParseInt(s) == s[2]

\* ------------------------------------------------------------ state
VARIABLES
    redis,      \* the hashes: job id -> hash (field name -> value)
    jobs,       \* the Redis list "jobs": the backlog, head = most recent lpush
    now,        \* the store's clock (datetime.now())
    ncreated,   \* POST /jobs calls so far
    ndeleted,   \* successful DELETE calls so far
    tasks,      \* background tasks created by start_simulation, not yet started
    runs,       \* Executor runs in progress
    pollerPc,   \* the Poller: "fetch" or "process"
    pending,    \* the Poller's pending_jobs still to process in this scan
    lost,       \* history: job ids whose latest terminal report did not reach the store
    nruns,      \* history: job id -> Executor runs started for it (2 stands for 2 or more)
    failedIds,  \* history: ids of the stored jobs for which a failed report was stored
    reply,      \* the store's answer to the last request of a client (None: none yet)
    sim,        \* one call of run_simulation, step by step (None: not started)
    codec       \* one array on its way from the Executor to the viewer (None: none yet)

vars == <<redis, jobs, now, ncreated, ndeleted, tasks, runs, pollerPc, pending,
          lost, nruns, failedIds, reply, sim, codec>>

\* ------------------------------------------------------------ the store
Tick(t) == IF t < MaxTime THEN t + 1 ELSE t

\* redis_client.hset(key, mapping=...): sets the given fields, keeps the others.
HSet(db, key, mapping) ==
    IF key \in DOMAIN db
    THEN [db EXCEPT ![key] = mapping @@ @]
    ELSE (key :> mapping) @@ db

\* redis_client.delete(key)
HDel(db, key) == [k \in (DOMAIN db) \ {key} |-> db[k]]

\* Faulty variant: lrem with count 1 removes the first occurrence only.
LRemFirst(list, id) ==
    IF \E i \in 1 .. Len(list) : list[i] = id
    THEN LET i == CHOOSE k \in 1 .. Len(list) :
                      list[k] = id /\ \A m \in 1 .. (k - 1) : list[m] # id
         IN  SubSeq(list, 1, i - 1) \o SubSeq(list, i + 1, Len(list))
    ELSE list

\* redis_client.lrem("jobs", 0, id): removes every occurrence.
LRem(list, id) == SelectSeq(list, LAMBDA x : x # id)

\* create_job: job_id, then the hash written for it (result is None, so the
\* field is left out of the mapping).
CreateId(c, n) == IF c.job_id # NoId THEN c.job_id ELSE Uuid(n)

NewJobDict(id, c, t) ==
    [id |-> id, status |-> "pending", progress |-> RedisStr(0),
     created_at |-> t, updated_at |-> t, config |-> JsonDumps(c)]

\* The Job model built from a hash (get_job, list_jobs).
JobOf(h) ==
    [id |-> h.id, status |-> h.status, progress |-> ParseInt(h.progress),
     created_at |-> h.created_at, updated_at |-> h.updated_at,
     config |-> JsonLoads(h.config),
     result |-> IF "result" \in DOMAIN h THEN JsonLoads(h.result) ELSE None]

\* list_jobs: the backlog's ids in order, ids without a hash skipped.
ListJobs(db, list) ==
    LET ids == SelectSeq(list, LAMBDA i : i \in DOMAIN db)
    IN  [n \in 1 .. Len(ids) |-> JobOf(db[ids[n]])]

\* JobStatusUpdate
StatusUpdate(s, p, r) == [status |-> s, progress |-> p, result |-> r]

\* Faulty variant: a missing result is written too (as null).
UpdateDictWithNone(upd, t) ==
    [status |-> upd.status, progress |-> RedisStr(upd.progress),
     updated_at |-> t, result |-> JsonDumps(upd.result)]

\* update_job on an existing job: the mapping handed to hset.
UpdateDict(upd, t) ==
    LET base == [status |-> upd.status, progress |-> RedisStr(upd.progress),
                 updated_at |-> t]
    IN  IF upd.result # None
        THEN [result |-> JsonDumps(upd.result)] @@ base
        ELSE base

\* Faulty variant: no existence check, hset creates the hash.
UpdateJobUpsert(db, key, upd, t) == HSet(db, key, UpdateDict(upd, t))

\* update_job: 404 and no change when the job does not exist.
UpdateJob(db, key, upd, t) ==
    IF key \notin DOMAIN db THEN db ELSE HSet(db, key, UpdateDict(upd, t))

\* ------------------------------------------------------------ the Executor
\* Number of steps of a run: simulation_steps in synchronized mode, the
\* number of position combinations of the moving drones otherwise.
RECURSIVE Power(_, _)
Power(n, m) == IF m = 0 THEN 1 ELSE n * Power(n, m - 1)

TotalSteps(c) ==
    IF c.move_together THEN c.simulation_steps
    ELSE Power(c.simulation_steps, c.moving)

\* The integer nearest to a / b, for b > 0.
RoundDiv(a, b) ==
    IF a >= 0 THEN (2 * a + b) \div (2 * b) ELSE -((2 * (-a) + b) \div (2 * b))

\* Faulty variant: the progress rounded to the nearest integer.
ProgressRounded(done, total) == RoundDiv(100 * done, total)

\* Faulty variant: the share of the steps still to do.
ProgressRemaining(done, total) == (100 * (total - done)) \div total

\* int(done / total * 100): the float product truncates to floor(100*done/total)
\* for every total below 50.
Progress(done, total) == (100 * done) \div total

\* The updates of a run: at its start, after a step, at its end.
BeginUpdate == StatusUpdate("processing", 0, None)

\* Faulty variant: the progress counts down from 100.
StepUpdateCountdown(done, total) ==
    StatusUpdate("processing", 100 - Progress(done, total), None)

StepUpdate(done, total) == StatusUpdate("processing", Progress(done, total), None)

\* {"results": all_results} after `done` steps: all_results has one entry per
\* step index 0..done-1.
AllResults(done) == << 0 .. (done - 1) >>

\* Faulty variant: progress left at the default of JobStatusUpdate.
CompletedUpdateDefaultProgress(done) == StatusUpdate("completed", 0, AllResults(done))

CompletedUpdate(done) == StatusUpdate("completed", 100, AllResults(done))

\* Faulty variant: the failure report keeps the progress of the first half.
FailedUpdateKeepsProgress == StatusUpdate("failed", 50, None)

\* The report of a caller whose run_simulation (or Config(**cfg)) raised.
FailedUpdate == StatusUpdate("failed", 0, None)

Terminal(s) == s \in {"completed", "failed"}

NewRun(by, c) ==
    [by |-> by, config |-> c, pc |-> "start", done |-> 0,
     total |-> TotalSteps(c), raised |-> FALSE, sent |-> <<>>,
     refused |-> FALSE]

\* Faulty variant: background tasks run side by side.
EventLoopNeverBusy == FALSE

\* run_simulation never awaits: while a background task runs it, the event
\* loop of the simulation service starts no other task.
EventLoopBusy == \E r \in runs : r.by = "push"

\* Faulty variant: the for loop does not wait for process_job.
WorkerNeverBusy == FALSE

\* process_job(job) returns before the for loop takes the next job.
WorkerBusy == \E r \in runs : r.by = "poller"

\* A PUT /jobs/{id} sent by a run or by its caller; reached is whether the
\* request gets to the store and is answered.
Put(key, upd, reached) ==
    /\ redis' = IF reached THEN UpdateJob(redis, key, upd, now) ELSE redis
    /\ now' = IF reached /\ key \in DOMAIN redis THEN Tick(now) ELSE now
    /\ lost' = IF ~Terminal(upd.status) THEN lost
               ELSE IF reached THEN lost \ {key} ELSE lost \cup {key}
    /\ failedIds' = IF reached /\ key \in DOMAIN redis /\ upd.status = "failed"
                    THEN failedIds \cup {key} ELSE failedIds

\* The PUT is answered 404: _update_job_status sees a status code other than
\* 200, logs the failure and returns.
Refused(key, reached) == reached /\ key \notin DOMAIN redis

\* The run after one more update: whether any of its updates was answered 404.
Sent(r, upd, reached) ==
    [r EXCEPT !.sent = Append(@, upd),
              !.refused = @ \/ Refused(r.config.job_id, reached)]

Started(id) == [nruns EXCEPT ![id] = IF @ < 2 THEN @ + 1 ELSE @]

WithRun(r, r2) == (runs \ {r}) \cup {r2}

\* ------------------------------------------------------------ Init
Init ==
    /\ redis = <<>>
    /\ jobs = <<>>
    /\ now = 0
    /\ ncreated = 0
    /\ ndeleted = 0
    /\ tasks = <<>>
    /\ runs = {}
    /\ pollerPc = "fetch"
    /\ pending = <<>>
    /\ lost = {}
    /\ nruns = [id \in JobIds |-> 0]
    /\ failedIds = {}
    /\ reply = None
    /\ sim = None
    /\ codec = None

\* ------------------------------------------------------------ store API
\* POST /jobs: the hash and the backlog entry, then one push to
\* /api/start_simulation.  accepted: the push reached the simulation service;
\* it creates a background task when the config validates (422 otherwise).
\* Every failure of the push is swallowed.
CreateJob(c, accepted) ==
    /\ ncreated < MaxCreates
    /\ LET id == CreateId(c, ncreated + 1)
       IN  /\ redis' = HSet(redis, id, NewJobDict(id, c, now))
           /\ jobs' = <<id>> \o jobs
           /\ lost' = lost \ {id}
           /\ failedIds' = failedIds \ {id}
    /\ now' = Tick(now)
    /\ ncreated' = ncreated + 1
    /\ tasks' = IF accepted /\ Valid(c) THEN Append(tasks, c) ELSE tasks
    /\ UNCHANGED <<ndeleted, runs, pollerPc, pending, nruns>>
    /\ UNCHANGED <<reply, sim, codec>>

\* DELETE /jobs/{id} of an existing job (404 and no change otherwise).
DeleteJob(id) ==
    /\ ndeleted < MaxDeletes
    /\ id \in DOMAIN redis
    /\ jobs' = LRem(jobs, id)
    /\ redis' = HDel(redis, id)
    /\ lost' = lost \ {id}
    /\ failedIds' = failedIds \ {id}
    /\ ndeleted' = ndeleted + 1
    /\ UNCHANGED <<now, ncreated, tasks, runs, pollerPc, pending, nruns>>
    /\ UNCHANGED <<reply, sim, codec>>

\* ------------------------------------------------------------ push path
\* The event loop starts the next background task: run_simulation_background
\* calls run_simulation(config).
StartTask ==
    /\ tasks # <<>>
    /\ ~EventLoopBusy
    /\ runs' = runs \cup {NewRun("push", Head(tasks))}
    /\ tasks' = Tail(tasks)
    /\ nruns' = Started(Head(tasks).job_id)
    /\ UNCHANGED <<redis, jobs, now, ncreated, ndeleted, pollerPc, pending, lost, failedIds>>
    /\ UNCHANGED <<reply, sim, codec>>

\* ------------------------------------------------------------ run_simulation
\* _update_job_status(job_id, "processing", 0)
RunBegin(r, reached) ==
    /\ r.pc = "start"
    /\ LET upd == BeginUpdate
       IN  /\ Put(r.config.job_id, upd, reached)
           /\ runs' = WithRun(r, [Sent(r, upd, reached) EXCEPT !.pc = "steps"])
    /\ UNCHANGED <<jobs, ncreated, ndeleted, tasks, pollerPc, pending, nruns>>
    /\ UNCHANGED <<reply, sim, codec>>

\* The loop of run_simulation has a step left to compute.
CanStep(r) == r.pc = "steps" /\ r.done < r.total

\* One step computed, then its progress update.
RunStepOk(r, reached) ==
    /\ CanStep(r)
    /\ LET upd == StepUpdate(r.done + 1, r.total)
       IN  /\ Put(r.config.job_id, upd, reached)
           /\ runs' = WithRun(r, [Sent(r, upd, reached) EXCEPT !.done = @ + 1])
    /\ UNCHANGED <<jobs, ncreated, ndeleted, tasks, pollerPc, pending, nruns>>
    /\ UNCHANGED <<reply, sim, codec>>

\* The step raises: run_simulation propagates it and the caller (process_job or
\* run_simulation_background) reports failed, progress 0.
RunStepFail(r, reached) ==
    /\ CanStep(r)
    /\ Put(r.config.job_id, FailedUpdate, reached)
    /\ runs' = WithRun(r, [Sent(r, FailedUpdate, reached)
                               EXCEPT !.pc = "done", !.raised = TRUE])
    /\ UNCHANGED <<jobs, ncreated, ndeleted, tasks, pollerPc, pending, nruns>>
    /\ UNCHANGED <<reply, sim, codec>>

\* _update_job_status(job_id, "completed", 100, {"results": all_results})
RunComplete(r, reached) ==
    /\ r.pc = "steps"
    /\ r.done = r.total
    /\ LET upd == CompletedUpdate(r.done)
       IN  /\ Put(r.config.job_id, upd, reached)
           /\ runs' = WithRun(r, [Sent(r, upd, reached) EXCEPT !.pc = "done"])
    /\ UNCHANGED <<jobs, ncreated, ndeleted, tasks, pollerPc, pending, nruns>>
    /\ UNCHANGED <<reply, sim, codec>>

\* Faulty variant: the exception of a run is not caught by its caller, which
\* never gets back to its loop.
RunReturnUnlessRaised(r) ==
    /\ r.pc = "done"
    /\ ~r.raised
    /\ runs' = runs \ {r}
    /\ UNCHANGED <<redis, jobs, now, ncreated, ndeleted, tasks, pollerPc, pending,
                   lost, nruns, failedIds, reply, sim, codec>>

\* The caller is done with the run (process_job returns, the task ends).
RunReturn(r) ==
    /\ r.pc = "done"
    /\ runs' = runs \ {r}
    /\ UNCHANGED <<redis, jobs, now, ncreated, ndeleted, tasks, pollerPc, pending,
                   lost, nruns, failedIds>>
    /\ UNCHANGED <<reply, sim, codec>>

\* ------------------------------------------------------------ the Poller
\* Faulty variants: the filter of get_pending_jobs takes no job, or takes
\* failed jobs too.
IsPendingNever(job) == FALSE
IsPendingOrFailed(job) == job.status \in {"pending", "failed"}
\* Faulty variant: no filter at all.
IsAnyStatus(job) == TRUE

IsPending(job) == job.status = "pending"

\* What process_job reads of a job of the list: job['id'] and job['config'].
Entry(job) == [id |-> job.id, config |-> job.config]

\* get_pending_jobs on a 200 answer.
PendingJobs ==
    LET p == SelectSeq(ListJobs(redis, jobs), IsPending)
    IN  [n \in 1 .. Len(p) |-> Entry(p[n])]

\* answered: GET /jobs returned 200; otherwise the scan sees no pending job.
\* An empty scan sleeps and fetches again.
PollerFetch(answered) ==
    /\ pollerPc = "fetch"
    /\ pending' = IF answered THEN PendingJobs ELSE <<>>
    /\ pollerPc' = IF pending' # <<>> THEN "process" ELSE "fetch"
    /\ UNCHANGED <<redis, jobs, now, ncreated, ndeleted, tasks, runs, lost, nruns, failedIds>>
    /\ UNCHANGED <<reply, sim, codec>>

\* process_job(job): Config(**job['config']) validates, run_simulation starts.
PollerRun ==
    /\ pollerPc = "process"
    /\ pending # <<>>
    /\ ~WorkerBusy
    /\ Valid(Head(pending).config)
    /\ runs' = runs \cup {NewRun("poller", Head(pending).config)}
    /\ pending' = Tail(pending)
    /\ nruns' = Started(Head(pending).config.job_id)
    /\ UNCHANGED <<redis, jobs, now, ncreated, ndeleted, tasks, pollerPc, lost, failedIds>>
    /\ UNCHANGED <<reply, sim, codec>>

\* process_job(job): Config(**job['config']) raises, the job is reported failed.
PollerReject(reached) ==
    /\ pollerPc = "process"
    /\ pending # <<>>
    /\ ~WorkerBusy
    /\ ~Valid(Head(pending).config)
    /\ Put(Head(pending).id, FailedUpdate, reached)
    /\ pending' = Tail(pending)
    /\ UNCHANGED <<jobs, ncreated, ndeleted, tasks, runs, pollerPc, nruns>>
    /\ UNCHANGED <<reply, sim, codec>>

\* Every job of the scan is processed: sleep, then the next fetch.
PollerScanDone ==
    /\ pollerPc = "process"
    /\ pending = <<>>
    /\ ~WorkerBusy
    /\ pollerPc' = "fetch"
    /\ UNCHANGED <<redis, jobs, now, ncreated, ndeleted, tasks, runs, pending,
                   lost, nruns, failedIds>>
    /\ UNCHANGED <<reply, sim, codec>>

\* ------------------------------------------------------------ specification
Next ==
    \/ \E c \in Configs, accepted \in BOOLEAN : CreateJob(c, accepted)
    \/ \E id \in JobIds : DeleteJob(id)
    \/ StartTask
    \/ \E r \in runs, reached \in BOOLEAN : RunBegin(r, reached)
    \/ \E r \in runs, reached \in BOOLEAN : RunStepOk(r, reached)
    \/ \E r \in runs, reached \in BOOLEAN : RunStepFail(r, reached)
    \/ \E r \in runs, reached \in BOOLEAN : RunComplete(r, reached)
    \/ \E r \in runs : RunReturn(r)
    \/ \E answered \in BOOLEAN : PollerFetch(answered)
    \/ PollerRun
    \/ \E reached \in BOOLEAN : PollerReject(reached)
    \/ PollerScanDone

Spec == Init /\ [][Next]_vars

\* What the code's scheduling guarantees: the event loop starts a queued task
\* once it is free, a started run goes on to its end (every step computation
\* and every PUT returns), and the Poller's loop keeps going and its GET is
\* answered again and again.
RunNext(by) ==
    \E r \in runs :
        /\ r.by = by
        /\ \/ \E reached \in BOOLEAN :
                 \/ RunBegin(r, reached)
                 \/ RunStepOk(r, reached)
                 \/ RunStepFail(r, reached)
                 \/ RunComplete(r, reached)
           \/ RunReturn(r)

PollerNext ==
    \/ PollerFetch(TRUE)
    \/ PollerRun
    \/ \E reached \in BOOLEAN : PollerReject(reached)
    \/ PollerScanDone

Fairness ==
    /\ WF_vars(StartTask)
    /\ WF_vars(RunNext("push"))
    /\ WF_vars(RunNext("poller"))
    /\ WF_vars(PollerNext)

\* The submissions of the liveness checks: every kind of config (one that runs,
\* one that does not validate, one without a job_id), one client id.
LiveConfigs ==
    { MkConfig(1, TRUE, MaxSteps, TRUE, 0),
      MkConfig(1, FALSE, 1, TRUE, 0),
      MkConfig(NoId, TRUE, 1, TRUE, 0) }

LiveNext ==
    \/ \E c \in LiveConfigs, accepted \in BOOLEAN : CreateJob(c, accepted)
    \/ \E id \in JobIds : DeleteJob(id)
    \/ StartTask
    \/ \E r \in runs, reached \in BOOLEAN : RunBegin(r, reached)
    \/ \E r \in runs, reached \in BOOLEAN : RunStepOk(r, reached)
    \/ \E r \in runs, reached \in BOOLEAN : RunStepFail(r, reached)
    \/ \E r \in runs, reached \in BOOLEAN : RunComplete(r, reached)
    \/ \E r \in runs : RunReturn(r)
    \/ \E answered \in BOOLEAN : PollerFetch(answered)
    \/ PollerRun
    \/ \E reached \in BOOLEAN : PollerReject(reached)
    \/ PollerScanDone

FairSpec == Init /\ [][LiveNext]_vars /\ Fairness

\* ------------------------------------------------------------ the store's API
\* The store driven by arbitrary clients: every request with every argument,
\* and the answer it gets.
HttpOk == 200
HttpNotFound == 404

Reply(op, code, body) == [op |-> op, code |-> code, body |-> body]

\* raise HTTPException(status_code=404, detail="Job not found")
NotFound(op) == Reply(op, HttpNotFound, "Job not found")

\* The ways the one requests.post of create_job can end: no answer within 5 s,
\* connection refused, a 422 answer (the config does not validate), a 200 answer.
PushOutcomes == {"timeout", "unreachable", "rejected", "accepted"}

\* What the simulation service answers when the push reaches it.
PushPossible(c, outcome) ==
    /\ outcome = "accepted" => Valid(c)
    /\ outcome = "rejected" => ~Valid(c)

\* The Job object create_job builds and returns.
NewJob(id, c, t) ==
    [id |-> id, status |-> "pending", progress |-> 0, created_at |-> t,
     updated_at |-> t, config |-> c, result |-> None]

\* The bodies a client can send to PUT /jobs/{id}: any status string, any
\* integer, a result or none.
UpdateInputs ==
    { StatusUpdate(st, p, r) :
        st \in {"completed", "bogus"},
        p \in {0, 250},
        r \in {None, AllResults(1)} }

\* The answers of get_job, list_jobs, update_job and delete_job.
GetReply(db, id) ==
    IF id \in DOMAIN db THEN Reply("get", HttpOk, JobOf(db[id])) ELSE NotFound("get")

ListReply(db, list) == Reply("list", HttpOk, ListJobs(db, list))

UpdateReply(db, id) ==
    IF id \in DOMAIN db
    THEN Reply("update", HttpOk, "Job updated successfully")
    ELSE NotFound("update")

DeleteReply(db, id) ==
    IF id \in DOMAIN db
    THEN Reply("delete", HttpOk, "Job deleted successfully")
    ELSE NotFound("delete")

\* Faulty variant: an exception of the push escapes create_job.
CreateReplyPropagates(id, c, t, outcome) ==
    IF outcome \in {"timeout", "unreachable"}
    THEN Reply("create", 500, "Internal Server Error")
    ELSE Reply("create", HttpOk, NewJob(id, c, t))

\* create_job returns the job whatever the push did (try / except Exception).
CreateReply(id, c, t, outcome) == Reply("create", HttpOk, NewJob(id, c, t))

\* POST /jobs
ApiCreate(c, outcome) ==
    /\ ncreated < MaxCreates
    /\ PushPossible(c, outcome)
    /\ LET id == CreateId(c, ncreated + 1)
       IN  /\ redis' = HSet(redis, id, NewJobDict(id, c, now))
           /\ jobs' = <<id>> \o jobs
           /\ reply' = CreateReply(id, c, now, outcome)
    /\ now' = Tick(now)
    /\ ncreated' = ncreated + 1
    /\ tasks' = IF outcome = "accepted" THEN Append(tasks, c) ELSE tasks
    /\ UNCHANGED <<ndeleted, runs, pollerPc, pending, lost, nruns, failedIds, sim, codec>>

\* GET /jobs
ApiList ==
    /\ reply' = ListReply(redis, jobs)
    /\ UNCHANGED <<redis, jobs, now, ncreated, ndeleted, tasks, runs, pollerPc,
                   pending, lost, nruns, failedIds, sim, codec>>

\* GET /jobs/{id}
ApiGet(id) ==
    /\ reply' = GetReply(redis, id)
    /\ UNCHANGED <<redis, jobs, now, ncreated, ndeleted, tasks, runs, pollerPc,
                   pending, lost, nruns, failedIds, sim, codec>>

\* PUT /jobs/{id}
ApiUpdate(id, upd) ==
    /\ redis' = UpdateJob(redis, id, upd, now)
    /\ now' = IF id \in DOMAIN redis THEN Tick(now) ELSE now
    /\ reply' = UpdateReply(redis, id)
    /\ UNCHANGED <<jobs, ncreated, ndeleted, tasks, runs, pollerPc, pending, lost,
                   nruns, failedIds, sim, codec>>

\* DELETE /jobs/{id}
ApiDelete(id) ==
    /\ reply' = DeleteReply(redis, id)
    /\ IF id \in DOMAIN redis
       THEN /\ jobs' = LRem(jobs, id)
            /\ redis' = HDel(redis, id)
       ELSE UNCHANGED <<redis, jobs>>
    /\ UNCHANGED <<now, ncreated, ndeleted, tasks, runs, pollerPc, pending, lost,
                   nruns, failedIds, sim, codec>>

StoreNext ==
    \/ \E c \in LiveConfigs, outcome \in PushOutcomes : ApiCreate(c, outcome)
    \/ ApiList
    \/ \E id \in JobIds : ApiGet(id)
    \/ \E id \in JobIds, upd \in UpdateInputs : ApiUpdate(id, upd)
    \/ \E id \in JobIds : ApiDelete(id)

StoreSpec == Init /\ [][StoreNext]_vars

\* ------------------------------------------------------------ trajectories
\* Coordinates are integers counting hundredths, so that round(x, 2) has an
\* exact value; a point is <<x, y, z>>.
\* numpy's 0.0 / 0: every coordinate of the point is nan.
NanPoint == <<"nan">>

\* Motion and Drone of models/configs.py; a missing Optional field is None.
Motion(type, radius, end) ==
    [motion_type |-> type, radius |-> radius, end_position |-> end]
Drone(loc, hm, mo) == [location |-> loc, has_motion |-> hm, motion |-> mo]

\* cos and sin of a whole number of degrees, times 10^6, for the multiples of
\* 30 degrees (the angles of a circle of 1, 2, 3, 4, 6 or 12 samples).
CosE6(deg) ==
    LET a == deg % 360
    IN  CASE a = 0 -> 1000000
          [] a \in {30, 330} -> 866025
          [] a \in {60, 300} -> 500000
          [] a \in {90, 270} -> 0
          [] a \in {120, 240} -> -500000
          [] a \in {150, 210} -> -866025
          [] a = 180 -> -1000000
SinE6(deg) == CosE6(deg + 270)

\* polar_to_cartesian: (round(r cos, 2), round(r sin, 2)), in hundredths.
PolarToCartesian(radius, degree) ==
    <<RoundDiv(radius * CosE6(degree), 1000000),
      RoundDiv(radius * SinE6(degree), 1000000)>>

\* len(range(n)), also the length of [x] * n: none for n <= 0.
Count(n) == IF n > 0 THEN n ELSE 0

\* The path of a drone with a line motion: steps points from its location to
\* end_position; with steps = 1 the division by steps - 1 = 0 gives nan.
LinePath(d, steps) ==
    [i \in 1 .. Count(steps) |->
        IF steps = 1 THEN NanPoint
        ELSE [k \in 1 .. 3 |->
                d.location[k]
                + ((i - 1) * (d.motion.end_position[k] - d.location[k])) \div (steps - 1)]]

\* Faulty variant: the circle is centred on the drone.
CirclePathAroundDrone(d, steps) ==
    [i \in 1 .. Count(steps) |->
        LET xy == PolarToCartesian(d.motion.radius, 180 + (i - 1) * (360 \div steps))
        IN  <<d.location[1] + xy[1], d.location[2] + xy[2], d.location[3]>>]

\* The path of a drone with a circle motion: the drone is the leftmost point
\* of the circle, the samples start there (180 degrees).
CirclePath(d, steps) ==
    [i \in 1 .. Count(steps) |->
        LET xy == PolarToCartesian(d.motion.radius, 180 + (i - 1) * (360 \div steps))
        IN  <<d.location[1] + d.motion.radius + xy[1], d.location[2] + xy[2],
              d.location[3]>>]

\* [drone.location] * steps
ConstantPath(d, steps) == [i \in 1 .. Count(steps) |-> d.location]

InMotion(d) == d.has_motion /\ d.motion # None

\* The drone's branch of _calculate_trajectories raises: a line without
\* end_position (None - float) once a point is computed, a circle with
\* steps = 0 (360 / 0).
PathRaises(d, steps) ==
    /\ InMotion(d)
    /\ \/ d.motion.motion_type = "line" /\ d.motion.end_position = None /\ steps >= 1
       \/ d.motion.motion_type = "circle" /\ steps = 0

\* The drone's branch appends a path: a drone in motion whose motion_type is
\* neither line nor circle appends none.
HasPath(d) == InMotion(d) => d.motion.motion_type \in {"line", "circle"}

PathOf(d, steps) ==
    IF ~InMotion(d) THEN ConstantPath(d, steps)
    ELSE IF d.motion.motion_type = "line" THEN LinePath(d, steps)
    ELSE CirclePath(d, steps)

\* _calculate_trajectories: the paths appended, in the order of the drones.
RECURSIVE Trajectories(_, _)
Trajectories(drones, steps) ==
    IF drones = <<>> THEN <<>>
    ELSE LET d == Head(drones)
             rest == Trajectories(Tail(drones), steps)
         IN  IF HasPath(d) THEN <<PathOf(d, steps)>> \o rest ELSE rest

TrajectoriesRaise(drones, steps) ==
    \E i \in 1 .. Len(drones) : PathRaises(drones[i], steps)

\* ------------------------------------------------------------ one run, in detail
\* Largest simulation_steps and longest list of drones of a config given to
\* the detailed run.
MaxSimSteps == 3
MaxDrones == 2

Origin == <<0, 0, 0>>
Away == <<600, 0, 0>>
Aloft == <<-200, 300, 150>>

\* radius: float = 0.0, in hundredths.
DefaultRadius == 0

\* Motion(**dict) and Drone(**dict): a key the dict lacks takes the default of
\* its field.
MotionOf(dict) ==
    Motion(dict.motion_type,
           IF "radius" \in DOMAIN dict THEN dict.radius ELSE DefaultRadius,
           IF "end_position" \in DOMAIN dict THEN dict.end_position ELSE None)

DroneOf(dict) ==
    Drone(dict.location, dict.has_motion,
          IF dict.motion = None THEN None ELSE MotionOf(dict.motion))

\* The drones of the submitted configs, as the dicts of the request:
\* stationary, on a line, on a circle, flagged has_motion without a motion, on
\* a line without end_position, with a motion_type that is neither line nor
\* circle, on a circle without radius, and on a larger circle off the ground.
SubmittedDrones ==
    { [location |-> Away, has_motion |-> FALSE, motion |-> None],
      [location |-> Origin, has_motion |-> TRUE,
       motion |-> [motion_type |-> "line", end_position |-> Away]],
      [location |-> Origin, has_motion |-> TRUE,
       motion |-> [motion_type |-> "circle", radius |-> 100]],
      [location |-> Origin, has_motion |-> TRUE, motion |-> None],
      [location |-> Origin, has_motion |-> TRUE, motion |-> [motion_type |-> "line"]],
      [location |-> Origin, has_motion |-> TRUE, motion |-> [motion_type |-> "spiral"]],
      [location |-> Origin, has_motion |-> TRUE, motion |-> [motion_type |-> "circle"]],
      [location |-> Aloft, has_motion |-> TRUE,
       motion |-> [motion_type |-> "circle", radius |-> 250]] }

SimDrones == { DroneOf(dict) : dict \in SubmittedDrones }

DroneLists == UNION { [1 .. n -> SubmittedDrones] : n \in 0 .. MaxDrones }

\* Config, as far as run_simulation reads it.
SimConfig(n, mt, drones) ==
    [job_id |-> 1, simulation_steps |-> n, move_together |-> mt, drones |-> drones]

\* The requests: every step count from -1, both modes, every list of drones.
Submissions ==
    { SimConfig(n, mt, ds) : n \in (-1) .. MaxSimSteps, mt \in BOOLEAN, ds \in DroneLists }

\* Config(**dict)
ConfigOf(dict) ==
    SimConfig(dict.simulation_steps, dict.move_together,
              [d \in 1 .. Len(dict.drones) |-> DroneOf(dict.drones[d])])

SimConfigs == { ConfigOf(dict) : dict \in Submissions }

\* range(n), as the sequence of its values.
Range(n) == [i \in 1 .. Count(n) |-> i - 1]

\* [i for i, d in enumerate(drones) if d.has_motion] and its complement
\* (indices from 0, as in the code).
MovingIndices(drones) ==
    SelectSeq(Range(Len(drones)), LAMBDA i : drones[i + 1].has_motion)
StationaryIndices(drones) ==
    SelectSeq(Range(Len(drones)), LAMBDA i : ~drones[i + 1].has_motion)

\* list.index(x): the first index (from 0) of an element equal to x.
IndexOf(list, x) ==
    (CHOOSE i \in 1 .. Len(list) :
        list[i] = x /\ \A k \in 1 .. (i - 1) : list[k] # x) - 1

\* np.prod of the lengths (1 for no list).
RECURSIVE ProdLen(_)
ProdLen(lists) ==
    IF lists = <<>> THEN 1 ELSE Len(Head(lists)) * ProdLen(Tail(lists))

\* itertools.product(*lists): its i-th element (from 0), the last list varying
\* fastest.
RECURSIVE NthProduct(_, _)
NthProduct(lists, i) ==
    IF lists = <<>> THEN <<>>
    ELSE LET last == lists[Len(lists)]
             front == SubSeq(lists, 1, Len(lists) - 1)
         IN  Append(NthProduct(front, i \div Len(last)), last[(i % Len(last)) + 1])

\* Faulty variant: every step stored under the same key.
SyncStepSameKey(c, traj, k) ==
    [step |-> k, key |-> 0,
     locations |-> [d \in 1 .. Len(c.drones) |-> traj[d][k + 1]]]

\* Faulty variant: every drone on the first trajectory.
SyncStepFirstTrajectory(c, traj, k) ==
    [step |-> k, key |-> k,
     locations |-> [d \in 1 .. Len(c.drones) |-> traj[1][k + 1]]]

\* The step of index k (from 0) of the synchronized loop: every drone at index
\* k of the trajectory found at its own index.
SyncStep(c, traj, k) ==
    [step |-> k, key |-> k,
     locations |-> [d \in 1 .. Len(c.drones) |-> traj[d][k + 1]]]

\* The step of index i (from 0) of the independent loop: the moving drones at
\* the positions of the i-th combination, the others at their location; the
\* step id joins one d<drone index>s<sample index> per moving drone.
IndependentStep(c, traj, i) ==
    LET moving == MovingIndices(c.drones)
        moving_trajectories == [j \in 1 .. Len(moving) |-> traj[moving[j] + 1]]
        combination == NthProduct(moving_trajectories, i)
    IN  [step |-> [j \in 1 .. Len(moving) |->
                      <<moving[j], IndexOf(traj[moving[j] + 1], combination[j])>>],
         key |-> i,
         locations |->
             [d \in 1 .. Len(c.drones) |->
                 IF c.drones[d].has_motion
                 THEN combination[IndexOf(moving, d - 1) + 1]
                 ELSE c.drones[d].location]]

\* trajectories[i] with i beyond the end of the list: in the synchronized
\* loop when a drone is placed, in independent mode when moving_trajectories
\* is built.
IndexError(c, traj) ==
    IF c.move_together THEN Len(traj) < Len(c.drones)
    ELSE \E j \in 1 .. Len(MovingIndices(c.drones)) :
             MovingIndices(c.drones)[j] + 1 > Len(traj)

\* total_steps / total_combinations, and the number of iterations of the loop.
SimTotal(c, traj) ==
    IF c.move_together THEN c.simulation_steps
    ELSE LET moving == MovingIndices(c.drones)
         IN  ProdLen([j \in 1 .. Len(moving) |-> traj[moving[j] + 1]])

Iterations(c, traj) ==
    IF c.move_together THEN Len(Range(c.simulation_steps)) ELSE SimTotal(c, traj)

\* Faulty variant: the caller does not report the failure.
SimFailUnreported(r) == [r EXCEPT !.pc = "done", !.raised = TRUE]

\* The exception leaves run_simulation and the caller reports failed.
SimFail(r) ==
    [r EXCEPT !.pc = "done", !.raised = TRUE, !.sent = Append(@, FailedUpdate)]

\* Faulty variant: a failed update raises into run_simulation.
UpdateRaisesWhenLost(reached) == ~reached

\* _update_job_status catches every exception of its PUT and only logs an
\* answer other than 200: nothing is raised to its caller.
UpdateRaises(reached) == FALSE

\* The run after an update that reached the store and was answered 200, or
\* did not.
AfterUpdate(r, reached) == [r EXCEPT !.dropped = @ \/ ~reached]

lifecycle == <<redis, jobs, now, ncreated, ndeleted, tasks, runs, pollerPc, pending,
               lost, nruns, failedIds, reply, codec>>

\* The request is validated and run_simulation(config) is called.
SimStart(dict) ==
    /\ sim = None
    /\ sim' = [submitted |-> dict, config |-> ConfigOf(dict), pc |-> "begin", trajectories |-> <<>>, total |-> 0,
               iterations |-> 0, done |-> 0, calls |-> <<>>, results |-> <<>>,
               sent |-> <<>>, raised |-> FALSE, dropped |-> FALSE]
    /\ UNCHANGED lifecycle

\* The first update, the trajectories, and the set-up of the loop.
SimBegin(reached) ==
    /\ sim # None
    /\ sim.pc = "begin"
    /\ LET c == sim.config
           begun == AfterUpdate([sim EXCEPT !.sent = <<BeginUpdate>>], reached)
           traj == Trajectories(c.drones, c.simulation_steps)
       IN  sim' = IF UpdateRaises(reached)
                  THEN SimFail(begun)
                  ELSE IF TrajectoriesRaise(c.drones, c.simulation_steps)
                  THEN SimFail(begun)
                  ELSE IF ~c.move_together /\ IndexError(c, traj)
                  THEN SimFail(begun)
                  ELSE [begun EXCEPT !.pc = "steps", !.trajectories = traj,
                                     !.total = SimTotal(c, traj),
                                     !.iterations = Iterations(c, traj)]
    /\ UNCHANGED lifecycle

\* One iteration of the loop: the drones are placed, _run_sionna_step is
\* called (ok: it returns), the result is stored under its key and the
\* progress is reported (reached: the update gets to the store).
SimStep(ok, reached) ==
    /\ sim # None
    /\ sim.pc = "steps"
    /\ sim.done < sim.iterations
    /\ LET c == sim.config
           st == IF c.move_together
                 THEN SyncStep(c, sim.trajectories, sim.done)
                 ELSE IndependentStep(c, sim.trajectories, sim.done)
           called == [sim EXCEPT !.calls =
                         Append(@, [step |-> st.step, locations |-> st.locations])]
       IN  sim' = IF c.move_together /\ IndexError(c, sim.trajectories)
                  THEN AfterUpdate(SimFail(sim), reached)
                  ELSE IF ~ok THEN AfterUpdate(SimFail(called), reached)
                  ELSE LET stepped ==
                               AfterUpdate(
                                   [called EXCEPT
                                       !.results = (st.key :> [drone_locations |-> st.locations,
                                                               results |-> st.step]) @@ @,
                                       !.done = @ + 1,
                                       !.sent = Append(@, StepUpdate(sim.done + 1, sim.total))],
                                   reached)
                       IN  IF UpdateRaises(reached) THEN SimFail(stepped) ELSE stepped
    /\ UNCHANGED lifecycle

\* The loop is over: the completed update with {"results": all_results}.
SimFinish(reached) ==
    /\ sim # None
    /\ sim.pc = "steps"
    /\ sim.done = sim.iterations
    /\ LET finished ==
               AfterUpdate(
                   [sim EXCEPT !.pc = "done",
                               !.sent = Append(@, StatusUpdate("completed", 100,
                                                               <<sim.results>>))],
                   reached)
       IN  sim' = IF UpdateRaises(reached) THEN SimFail(finished) ELSE finished
    /\ UNCHANGED lifecycle

SimNext ==
    \/ \E dict \in Submissions : SimStart(dict)
    \/ \E reached \in BOOLEAN : SimBegin(reached)
    \/ \E ok, reached \in BOOLEAN : SimStep(ok, reached)
    \/ \E reached \in BOOLEAN : SimFinish(reached)

SimSpec == Init /\ [][SimNext]_vars

\* ------------------------------------------------------------ the result encoder
\* Largest number of dimensions, largest dimension and largest number of
\* elements of an encoded array.
MaxRank == 2
MaxDim == 2
MaxElems == 4

\* The element types of an array, and the bytes of one element.
Dtypes == {"float16", "float32", "float64"}
ItemSize(dtype) ==
    CASE dtype = "float16" -> 2
      [] dtype = "float32" -> 4
      [] dtype = "float64" -> 8

\* np.prod(shape)
RECURSIVE Prod(_)
Prod(shape) == IF shape = <<>> THEN 1 ELSE Head(shape) * Prod(Tail(shape))

Shapes ==
    { shape \in UNION { [1 .. r -> 0 .. MaxDim] : r \in 1 .. MaxRank } :
        Prod(shape) <= MaxElems }

\* The little-endian bytes of the elements 0.0 and 1.0.
ElementBytes(dtype, v) ==
    CASE v = 0 -> [k \in 1 .. ItemSize(dtype) |-> 0]
      [] v = 1 /\ dtype = "float16" -> <<0, 60>>
      [] v = 1 /\ dtype = "float32" -> <<0, 0, 128, 63>>
      [] v = 1 /\ dtype = "float64" -> <<0, 0, 0, 0, 0, 0, 240, 63>>

\* arr.tobytes(): the elements in order.
RECURSIVE ToBytes(_, _)
ToBytes(dtype, values) ==
    IF values = <<>> THEN <<>>
    ELSE ElementBytes(dtype, Head(values)) \o ToBytes(dtype, Tail(values))

\* An array: element type, shape and raw bytes.
Array(dtype, shape, values) ==
    [dtype |-> dtype, shape |-> shape, bytes |-> ToBytes(dtype, values)]

\* base64: three bytes give four symbols of six bits; a last group of one or
\* two bytes is filled up with the padding symbol.
Pad == 64

RECURSIVE B64Encode(_)
B64Encode(b) ==
    IF b = <<>> THEN <<>>
    ELSE IF Len(b) = 1
    THEN <<b[1] \div 4, (b[1] % 4) * 16, Pad, Pad>>
    ELSE IF Len(b) = 2
    THEN <<b[1] \div 4, (b[1] % 4) * 16 + b[2] \div 16, (b[2] % 16) * 4, Pad>>
    ELSE <<b[1] \div 4, (b[1] % 4) * 16 + b[2] \div 16,
           (b[2] % 16) * 4 + b[3] \div 64, b[3] % 64>>
         \o B64Encode(SubSeq(b, 4, Len(b)))

RECURSIVE B64Decode(_)
B64Decode(t) ==
    IF t = <<>> THEN <<>>
    ELSE IF t[3] = Pad
    THEN <<t[1] * 4 + t[2] \div 16>>
    ELSE IF t[4] = Pad
    THEN <<t[1] * 4 + t[2] \div 16, (t[2] % 16) * 16 + t[3] \div 4>>
    ELSE <<t[1] * 4 + t[2] \div 16, (t[2] % 16) * 16 + t[3] \div 4,
           (t[3] % 4) * 64 + t[4]>>
         \o B64Decode(SubSeq(t, 5, Len(t)))

\* The results dict of _run_sionna_step for the magnitude array (the phase
\* array goes the same way).
StepResults(arr) ==
    [cir_mag |-> B64Encode(arr.bytes), dtype |-> arr.dtype, shape |-> arr.shape]

\* A key of a JSON object: the digits of an integer key, or a name.
Digits(i) == <<"digits", i>>
Name(s) == <<"name", s>>

\* The job's result as the store returns it: run_simulation's
\* {"results": {i: {"drone_locations": ..., "results": step_results}}}.
StoredResult(step_results) ==
    Name("results") :>
        (Digits(0) :> [drone_locations |-> <<Origin>>, results |-> step_results])

\* The layout process_simulation_results_data reads:
\* {"<i>": {"drone_locations": ..., "step_results": step_results}}.
ReadLayout(step_results) ==
    Digits(0) :> [drone_locations |-> <<Origin>>, step_results |-> step_results]

Layouts == {"stored", "read"}

\* process_simulation_results_data on job_data['result']: the magnitude array
\* of the first step, None when an exception is caught.  sorted(keys, key=int)
\* raises on a key that is no integer; a step without 'step_results' has no
\* shape; the bytes are read as float16 whatever the dtype stored.
ProcessResults(result_dict) ==
    IF DOMAIN result_dict = {} THEN None
    ELSE IF \E key \in DOMAIN result_dict : key[1] # "digits" THEN None
    ELSE LET step_data == result_dict[Digits(0)]
         IN  IF "step_results" \notin DOMAIN step_data THEN None
             ELSE LET step_results == step_data.step_results
                      shape == step_results.shape
                      expected_elements == Prod(shape)
                      mag_bytes == B64Decode(step_results.cir_mag)
                      size == ItemSize("float16")
                      available == Len(mag_bytes) \div size
                      taken == IF available < expected_elements THEN available
                               ELSE expected_elements
                  IN  IF shape = <<>> THEN None
                      ELSE IF Len(mag_bytes) % size # 0 THEN None
                      ELSE IF taken # expected_elements THEN None
                      ELSE [dtype |-> "float16", shape |-> shape,
                            bytes |-> SubSeq(mag_bytes, 1, taken * size)]

\* A step of the Executor encodes an array.
StepEncodes(dtype, shape, values) ==
    /\ codec = None
    /\ codec' = [pc |-> "encoded", array |-> Array(dtype, shape, values),
                 step_results |-> StepResults(Array(dtype, shape, values)),
                 layout |-> "none", decoded |-> None]
    /\ UNCHANGED <<redis, jobs, now, ncreated, ndeleted, tasks, runs, pollerPc, pending,
                   lost, nruns, failedIds, reply, sim>>

\* The viewer decodes the job's result, given in one of the layouts.
ViewerDecodes(layout) ==
    /\ codec # None
    /\ codec.pc = "encoded"
    /\ codec' = [codec EXCEPT
                    !.pc = "decoded",
                    !.layout = layout,
                    !.decoded = ProcessResults(IF layout = "stored"
                                               THEN StoredResult(codec.step_results)
                                               ELSE ReadLayout(codec.step_results))]
    /\ UNCHANGED <<redis, jobs, now, ncreated, ndeleted, tasks, runs, pollerPc, pending,
                   lost, nruns, failedIds, reply, sim>>

CodecNext ==
    \/ \E dtype \in Dtypes, shape \in Shapes :
          \E values \in [1 .. Prod(shape) -> {0, 1}] : StepEncodes(dtype, shape, values)
    \/ \E layout \in Layouts : ViewerDecodes(layout)

CodecSpec == Init /\ [][CodecNext]_vars

\* ------------------------------------------------------------ views
Stored == DOMAIN redis
Job(id) == JobOf(redis[id])
HasResult(id) == "result" \in DOMAIN redis[id]
RunsOf(id) == { r \in runs : r.config.job_id = id }
Last(q) == q[Len(q)]
\* How many backlog entries the id has: one per Create since its last Delete.
Occurrences(id) == Len(SelectSeq(jobs, LAMBDA x : x = id))

\* ------------------------------------------------------------ C1
\* C1 (as stated): for every job id, no two Executor runs (one started by the
\* push, one by the Poller) are in progress for that id at the same time.
C1_NoConcurrentRuns ==
    \A id \in JobIds : Cardinality(RunsOf(id)) <= 1

\* C1 (amended): at any time at most one push-started run and at most one
\* Poller-started run are in progress, so at most two runs of one id overlap,
\* one of each origin.
C1_OneRunPerCaller ==
    \A by \in {"push", "poller"} : Cardinality({ r \in runs : r.by = by }) <= 1

\* A push-started run and a Poller-started run of the same id, both past their
\* first update.
C1_Witness ==
    \E r1 \in runs, r2 \in runs :
        /\ r1.by = "push" /\ r2.by = "poller"
        /\ r1.config.job_id = r2.config.job_id
        /\ r1.pc = "steps" /\ r2.pc = "steps"

\* ------------------------------------------------------------ C2
StoredTerminal(id) == id \in Stored /\ Terminal(Job(id).status)

C3_ResultOnlyWhenCompleted ==
    \A id \in Stored : HasResult(id) => Job(id).status = "completed"

\* ------------------------------------------------------------ C4
\* C4 (as stated): a stored job has progress 100 if and only if its status is
\* completed.
C4_HundredIffCompleted ==
    \A id \in Stored : (Job(id).progress = 100) <=> (Job(id).status = "completed")

\* C4 (amended): a completed job has progress 100, and a job with progress 100
\* is completed or still processing (the update after the last step reports
\* processing with progress 100 before the completed update).
C4_HundredWhenCompleted ==
    \A id \in Stored :
        /\ Job(id).status = "completed" => Job(id).progress = 100
        /\ Job(id).progress = 100 => Job(id).status \in {"processing", "completed"}

\* A job stored as processing with progress 100, its run about to complete.
C4_Witness ==
    \E r \in runs :
        /\ r.pc = "steps" /\ r.done = r.total
        /\ r.config.job_id \in Stored
        /\ Job(r.config.job_id).status = "processing"
        /\ Job(r.config.job_id).progress = 100

\* ------------------------------------------------------------ C5
\* C5 (as stated): the stored progress of a job never decreases from one state
\* of its record to the next, from its creation on (a Create is the start of a
\* lifetime, so a step that is a Create is not compared).
C5_ProgressNeverDecreases ==
    [][ncreated' = ncreated =>
          \A id \in Stored \cap DOMAIN redis' :
              JobOf(redis'[id]).progress >= Job(id).progress]_vars

\* C5 (amended): while no second Executor run has been started for the id, the
\* stored progress decreases only by a reset to 0, made by a failed report or
\* by a Create that reuses the id.
C5_ProgressDropsOnlyByReset ==
    [][\A id \in Stored \cap DOMAIN redis' :
          JobOf(redis'[id]).progress < Job(id).progress =>
              \/ nruns[id] >= 2
              \/ /\ JobOf(redis'[id]).progress = 0
                 /\ JobOf(redis'[id]).status \in {"failed", "pending"}]_vars

\* A job failed with progress 0 after its only run had reported a step.
C5_Witness ==
    \E r \in runs :
        /\ r.raised /\ r.done >= 1
        /\ nruns[r.config.job_id] = 1
        /\ r.config.job_id \in Stored
        /\ Job(r.config.job_id).status = "failed"
        /\ Job(r.config.job_id).progress = 0

\* ------------------------------------------------------------ C6
NonDecreasing(q) ==
    \A i \in 1 .. Len(q) - 1 : q[i].progress <= q[i + 1].progress

\* C6: in a run in which no step fails the progress values of the updates are
\* non-decreasing, and the last update of the run is completed with 100.
C6_SuccessfulRunMonotone ==
    \A r \in runs :
        ~r.raised =>
            /\ NonDecreasing(r.sent)
            /\ r.pc = "done" =>
                  /\ Last(r.sent).status = "completed"
                  /\ Last(r.sent).progress = 100

\* A finished run of two or more steps that did not raise.
C6_Witness ==
    \E r \in runs : r.pc = "done" /\ ~r.raised /\ r.total >= 2 /\ Len(r.sent) = r.total + 2

C8_NoRunAfterFailed ==
    [][\A r \in runs' \ runs :
          (r.pc = "start" /\ Occurrences(r.config.job_id) <= 1)
              => r.config.job_id \notin failedIds]_vars

\* C8 (amended): neither caller retries a run that raised (the step that
\* reports the failure starts no run and queues none), and a Poller scan takes
\* only jobs stored as pending when the list was fetched, so a job stored as
\* failed at that time is not run by that scan; a background task queued
\* before the failure, or a scan fetched before it, can still start a run.
C8_NoRetry ==
    [][/\ \A r \in runs, reached \in BOOLEAN :
             RunStepFail(r, reached) =>
                 /\ tasks' = tasks /\ pending' = pending
                 /\ \A x \in runs' \ runs : x.pc = "done"
       /\ \A answered \in BOOLEAN :
             PollerFetch(answered) =>
                 \A i \in 1 .. Len(pending') :
                     /\ pending'[i].id \in Stored
                     /\ Job(pending'[i].id).status = "pending"]_vars

\* A scan is fetched while one job is stored as failed and another as pending.
C8_Witness ==
    /\ pollerPc = "process"
    /\ pending # <<>>
    /\ \E id \in Stored : Job(id).status = "failed" /\ id \in failedIds
    /\ \A i \in 1 .. Len(pending) : pending[i].id \notin failedIds

\* ------------------------------------------------------------ C9
\* C9 (as stated): Create(config) stores a job with status pending, progress
\* 0, created_at = updated_at = the creation time, no result, the supplied
\* config and the id config.job_id (a fresh id when none is supplied), and puts
\* the id at the head of the backlog.
C9_CreateStoresFreshJob ==
    [][\A c \in Configs, accepted \in BOOLEAN :
          CreateJob(c, accepted) =>
              LET id == Head(jobs')
              IN  /\ IF c.job_id # NoId THEN id = c.job_id
                     ELSE id \notin Stored /\ id \notin ClientIds
                  /\ jobs' = <<id>> \o jobs
                  /\ id \in DOMAIN redis'
                  /\ JobOf(redis'[id]) =
                        [id |-> id, status |-> "pending", progress |-> 0,
                         created_at |-> now, updated_at |-> now,
                         config |-> c, result |-> None]]_vars

\* ------------------------------------------------------------ C10
\* C10 (as stated): List returns exactly the stored jobs, each once and with
\* its current record, the most recently created first.
C10_ListIsStoredJobs ==
    LET l == ListJobs(redis, jobs)
    IN  /\ { l[i].id : i \in 1 .. Len(l) } = Stored
        /\ \A i \in 1 .. Len(l) : l[i] = Job(l[i].id)
        /\ \A i, j \in 1 .. Len(l) :
              i < j => l[i].id # l[j].id /\ l[i].created_at >= l[j].created_at

\* ------------------------------------------------------------ C11
\* The backlog and the records name the same ids.
BacklogMatchesRecords ==
    \A id \in JobIds : (id \in Stored) <=> (\E i \in 1 .. Len(jobs) : jobs[i] = id)

\* C11: a Delete of a stored job is answered with success and leaves the id
\* without record and without backlog entry, so that a Get of it and a second
\* Delete answer NotFound and List does not return it, with every other record
\* and the order of the other backlog entries unchanged; and in every state
\* the backlog and the records name the same ids.
C11_DeleteRemovesJob ==
    /\ []BacklogMatchesRecords
    /\ [][\A id \in Stored :
             ApiDelete(id) =>
                 /\ reply'.code = HttpOk
                 /\ id \notin DOMAIN redis'
                 /\ \A i \in 1 .. Len(jobs') : jobs'[i] # id
                 /\ GetReply(redis', id) = NotFound("get")
                 /\ DeleteReply(redis', id) = NotFound("delete")
                 /\ \A i \in 1 .. Len(ListReply(redis', jobs').body) :
                       ListReply(redis', jobs').body[i].id # id
                 /\ DOMAIN redis' = Stored \ {id}
                 /\ \A k \in Stored \ {id} : redis'[k] = redis[k]
                 /\ jobs' = SelectSeq(jobs, LAMBDA x : x # id)]_vars

\* A Delete has succeeded while another job stays stored.
C11_Witness ==
    /\ reply = Reply("delete", HttpOk, "Job deleted successfully")
    /\ Stored # {}

\* ------------------------------------------------------------ C12
\* C12: a Get, an Update and a Delete of an id that has no record are each
\* answered NotFound (404) and change neither the records nor the backlog.
C12_UnknownIdNotFound ==
    [][\A id \in JobIds \ Stored :
          /\ ApiGet(id) =>
                reply' = NotFound("get") /\ redis' = redis /\ jobs' = jobs
          /\ \A upd \in UpdateInputs :
                ApiUpdate(id, upd) =>
                    reply' = NotFound("update") /\ redis' = redis /\ jobs' = jobs
          /\ ApiDelete(id) =>
                reply' = NotFound("delete") /\ redis' = redis /\ jobs' = jobs]_vars

\* An Update of an id without record was answered NotFound while another job
\* is stored.
C12_Witness ==
    /\ reply = NotFound("update")
    /\ Stored # {}

\* ------------------------------------------------------------ C13
\* C13: an Update of a stored job is accepted whatever status, progress and
\* result it carries; it sets status and progress to the supplied values, sets
\* the result when one is supplied and keeps the stored one otherwise, sets
\* updated_at to the time of the call, and leaves id, created_at, config, the
\* backlog and every other record unchanged.
C13_UpdateMerges ==
    [][\A id \in Stored, upd \in UpdateInputs :
          ApiUpdate(id, upd) =>
              LET old == Job(id)
                  new == JobOf(redis'[id])
              IN  /\ reply' = Reply("update", HttpOk, "Job updated successfully")
                  /\ new.status = upd.status
                  /\ new.progress = upd.progress
                  /\ new.result = IF upd.result # None THEN upd.result ELSE old.result
                  /\ new.updated_at = now
                  /\ new.id = old.id
                  /\ new.created_at = old.created_at
                  /\ new.config = old.config
                  /\ jobs' = jobs
                  /\ DOMAIN redis' = Stored
                  /\ \A k \in Stored \ {id} : redis'[k] = redis[k]]_vars

\* An Update was accepted, and a job is stored with a result under a status
\* that is none of the lifecycle's and a progress above 100, while another job
\* is stored.
C13_Witness ==
    /\ reply = Reply("update", HttpOk, "Job updated successfully")
    /\ Cardinality(Stored) >= 2
    /\ \E id \in Stored :
          /\ Job(id).status = "bogus"
          /\ Job(id).progress = 250
          /\ Job(id).result # None

\* ------------------------------------------------------------ C14
\* C14: whatever the outcome of the push, a Create answers with the created
\* job, the record and the backlog entry are stored, and the one push has
\* queued at most one run: one when it was accepted, none otherwise.
C14_CreateSurvivesPush ==
    [][\A c \in LiveConfigs, outcome \in PushOutcomes :
          ApiCreate(c, outcome) =>
              LET id == CreateId(c, ncreated + 1)
              IN  /\ reply' = Reply("create", HttpOk, NewJob(id, c, now))
                  /\ id \in DOMAIN redis'
                  /\ JobOf(redis'[id]).config = c
                  /\ JobOf(redis'[id]).status = "pending"
                  /\ Head(jobs') = id
                  /\ tasks' = IF outcome = "accepted" THEN Append(tasks, c) ELSE tasks]_vars

\* A Create of a config that validates has answered with the job although its
\* push queued no run (it timed out or did not connect).
C14_Witness ==
    /\ reply # None
    /\ reply.op = "create"
    /\ reply.code = HttpOk
    /\ Valid(reply.body.config)
    /\ reply.body.id \in Stored
    /\ tasks = <<>>

\* ------------------------------------------------------------ C15
\* C15: the Poller's loop goes on whatever happens in a scan: a list request
\* that is not answered with 200 gives a scan without jobs, a run that raises
\* (its failed report stored or lost) leaves the rest of the scan in place,
\* and every scan is worked off to its end, after which the Poller fetches
\* again.
C15_PollerKeepsGoing ==
    /\ [][/\ PollerFetch(FALSE) => (pending' = <<>> /\ pollerPc' = "fetch")
          /\ \A r \in runs, reached \in BOOLEAN :
                (r.by = "poller" /\ RunStepFail(r, reached)) =>
                    (pending' = pending /\ pollerPc' = "process")
          /\ \A reached \in BOOLEAN :
                PollerReject(reached) =>
                    (pending' = Tail(pending) /\ pollerPc' = "process")]_vars
    /\ \A n \in 0 .. MaxCreates :
          (pollerPc = "process" /\ Len(pending) = n)
              ~> (pollerPc = "fetch" /\ pending = <<>>)

\* A run of the Poller has raised, its failed report was lost, and the scan
\* has another job left.
C15_Witness ==
    /\ pollerPc = "process"
    /\ pending # <<>>
    /\ \E r \in runs :
          r.by = "poller" /\ r.raised /\ r.pc = "done" /\ r.config.job_id \in lost

\* ---------------------------------------------------------------------------
\* The steps of a run
\* ---------------------------------------------------------------------------

\* The trajectory the generator gives the drone on its own: <<path>>, or <<>>
\* when it gives none.
OwnTrajectory(d, steps) == Trajectories(<<d>>, steps)

SimSucceeded == sim # None /\ sim.pc = "done" /\ ~sim.raised

\* C16: a successful run in synchronized mode with step count N calls the
\* per-step computation exactly N times (never, for a negative N), and the
\* call of step k places every drone at index k of its own trajectory; a
\* drone without motion is at its location in every call.
C16_SynchronizedSteps ==
    (SimSucceeded /\ sim.config.move_together) =>
        LET c == sim.config
            N == c.simulation_steps
        IN  /\ Len(sim.calls) = Count(N)
            /\ \A k \in 1 .. Len(sim.calls) :
                   /\ sim.calls[k].step = k - 1
                   /\ \A d \in 1 .. Len(c.drones) :
                          /\ OwnTrajectory(c.drones[d], N) # <<>>
                          /\ sim.calls[k].locations[d] = OwnTrajectory(c.drones[d], N)[1][k]
                          /\ ~InMotion(c.drones[d]) =>
                                 sim.calls[k].locations[d] = c.drones[d].location

\* A successful synchronized run of MaxSimSteps steps with a circling drone
\* and a drone at rest elsewhere.
C16_Witness ==
    /\ SimSucceeded
    /\ sim.config.move_together
    /\ Len(sim.calls) = MaxSimSteps
    /\ sim.config.drones = <<Drone(Away, FALSE, None),
                             Drone(Origin, TRUE, Motion("circle", 100, None))>>
    /\ sim.calls[2].locations[2] # sim.calls[1].locations[2]
    /\ sim.calls[2].locations[1] = Away

\* The positions of the moving drones in a call, in the order of the drones.
MovingLocations(c, call) ==
    [j \in 1 .. Len(MovingIndices(c.drones)) |->
        call.locations[MovingIndices(c.drones)[j] + 1]]

\* C17: a successful run in independent mode calls the per-step computation
\* once for each element of the Cartesian product of the trajectories of the
\* drones that have motion (one call when none has), every drone that has
\* motion has a trajectory of its own, and in every call a drone without
\* motion is at its location and the others are at the positions of the
\* combination.
C17_IndependentSteps ==
    (SimSucceeded /\ ~sim.config.move_together) =>
        LET c == sim.config
            N == c.simulation_steps
            moving == MovingIndices(c.drones)
            calls == sim.calls
        IN  /\ \A j \in 1 .. Len(moving) : OwnTrajectory(c.drones[moving[j] + 1], N) # <<>>
            /\ LET own == [j \in 1 .. Len(moving) |->
                              OwnTrajectory(c.drones[moving[j] + 1], N)[1]]
                    product == {NthProduct(own, i) : i \in 0 .. (ProdLen(own) - 1)}
               IN  /\ Len(calls) = ProdLen(own)
                   /\ \A k \in 1 .. Len(calls) :
                          /\ MovingLocations(c, calls[k]) \in product
                          /\ \A d \in 1 .. Len(c.drones) :
                                 ~c.drones[d].has_motion =>
                                     calls[k].locations[d] = c.drones[d].location
                   /\ \A x \in product :
                          Cardinality({k \in 1 .. Len(calls) :
                                          MovingLocations(c, calls[k]) = x})
                              = Cardinality({i \in 0 .. (ProdLen(own) - 1) :
                                                NthProduct(own, i) = x})

\* The sample indices of the i-th combination (from 0), one per moving drone.
SampleIndices(c, traj, i) ==
    LET moving == MovingIndices(c.drones)
    IN  NthProduct([j \in 1 .. Len(moving) |-> Range(Len(traj[moving[j] + 1]))], i)

\* The step ids of different calls differ.
StepIdsDiffer ==
    \A j, k \in 1 .. Len(sim.calls) : j # k => sim.calls[j].step # sim.calls[k].step

\* Every pair of a step id names a moving drone and the index of the sample
\* the call used for it.
StepIdsNameSamples ==
    \A k \in 1 .. Len(sim.calls) :
        LET moving == MovingIndices(sim.config.drones)
            id == sim.calls[k].step
        IN  /\ Len(id) = Len(moving)
            /\ \A j \in 1 .. Len(moving) :
                   id[j] = <<moving[j],
                             SampleIndices(sim.config, sim.trajectories, k - 1)[j]>>

\* The accumulated results hold one entry per finished step, under its step id
\* (a sequence of pairs, never a number).
ResultsKeyedByStepId ==
    /\ \A key \in DOMAIN sim.results : key \notin Int
    /\ DOMAIN sim.results = {sim.calls[k].step : k \in 1 .. sim.done}
    /\ \A k \in 1 .. sim.done :
           sim.results[sim.calls[k].step].drone_locations = sim.calls[k].locations

\* C18: in independent mode every step's entry of the accumulated results is
\* keyed by the step's composite identifier, which holds one (drone index,
\* sample index) pair per moving drone with the index of the sample used, and
\* no two steps of a run have the same identifier.
C18_StepIdsKeyResults ==
    (sim # None /\ ~sim.config.move_together /\ sim.pc # "begin" /\ ~sim.raised) =>
        /\ ResultsKeyedByStepId
        /\ StepIdsNameSamples
        /\ StepIdsDiffer

\* The update sent after the k-th step of the run.
UpdateAfterStep(k) == sim.sent[k + 1]

C20_NonPositiveStepsRejected ==
    (sim # None /\ sim.config.simulation_steps <= 0) =>
        /\ sim.calls = <<>>
        /\ \A i \in 1 .. Len(sim.sent) : sim.sent[i].status # "completed"
        /\ sim.pc = "done" => Last(sim.sent) = StatusUpdate("failed", 0, None)

\* ---------------------------------------------------------------------------
\* Malformed configs
\* ---------------------------------------------------------------------------

\* The drone's dict names a motion type and lacks the parameter of that type.
MissingParameter(dict) ==
    /\ dict.motion # None
    /\ \/ dict.motion.motion_type = "line" /\ "end_position" \notin DOMAIN dict.motion
       \/ dict.motion.motion_type = "circle" /\ "radius" \notin DOMAIN dict.motion

\* C21: a job whose config names a motion type without its required parameter
\* (a line without end position, a circle without radius) gets no per-step
\* computation, is never reported completed, and ends with the update failed,
\* progress 0, no result (stated for a positive step count).
C21_MalformedConfigFails ==
    (/\ sim # None
     /\ sim.config.simulation_steps >= 1
     /\ \E d \in 1 .. Len(sim.submitted.drones) : MissingParameter(sim.submitted.drones[d])) =>
        /\ sim.calls = <<>>
        /\ \A i \in 1 .. Len(sim.sent) : sim.sent[i].status # "completed"
        /\ sim.pc = "done" => Last(sim.sent) = StatusUpdate("failed", 0, None)

\* ---------------------------------------------------------------------------
\* The trajectory generator
\* ---------------------------------------------------------------------------

\* The trajectories have been computed for a positive step count.
Generated ==
    /\ sim # None
    /\ sim.pc # "begin"
    /\ sim.config.simulation_steps >= 1
    /\ sim.trajectories # <<>>

IsLine(d) ==
    InMotion(d) /\ d.motion.motion_type = "line" /\ d.motion.end_position # None

\* C22: for N >= 1 the trajectory of a line from P0 (the location) to P1 (the
\* end position) has N points, point i (from 0) is P0 + i * (P1 - P0) / (N - 1),
\* the first point is P0, the last is P1 when N > 1, and for N = 1 the only
\* point is P0.  Stated for the first drone of the config, whose trajectory is
\* the first of the list.
C22_LineTrajectory ==
    (Generated /\ IsLine(sim.config.drones[1])) =>
        LET N == sim.config.simulation_steps
            P0 == sim.config.drones[1].location
            P1 == sim.config.drones[1].motion.end_position
            t == sim.trajectories[1]
        IN  /\ Len(t) = N
            /\ t[1] = P0
            /\ N > 1 => t[N] = P1
            /\ N > 1 =>
                   \A i \in 0 .. (N - 1) :
                       /\ Len(t[i + 1]) = 3
                       /\ \A k \in 1 .. 3 :
                              (t[i + 1][k] - P0[k]) * (N - 1) = i * (P1[k] - P0[k])

IsCircle(d) == InMotion(d) /\ d.motion.motion_type = "circle" /\ d.motion.radius > 0

\* The square of the distance in the plane between a point and (cx, cy).
Dist2(p, cx, cy) == (p[1] - cx) * (p[1] - cx) + (p[2] - cy) * (p[2] - cy)

\* C23 as stated: for a circle of radius r > 0 at (x0, y0, z0) and N >= 1,
\* every point has Z = z0 and is at distance r from (x0 + r, y0), and the
\* first point is the drone's location.
C23_CircleExact ==
    (Generated /\ IsCircle(sim.config.drones[1])) =>
        LET d == sim.config.drones[1]
            r == d.motion.radius
            t == sim.trajectories[1]
        IN  /\ t[1] = d.location
            /\ \A i \in 1 .. Len(t) :
                   /\ t[i][3] = d.location[3]
                   /\ Dist2(t[i], d.location[1] + r, d.location[2]) = r * r

\* C23, amended: the trajectory has N points, every point has Z = z0 and its
\* X and Y are the centre (x0 + r, y0) plus the polar offsets rounded to two
\* decimals, so its distance from the centre is r to within one hundredth;
\* the first point is the drone's location (radius in whole hundredths).
C23_CircleRounded ==
    (Generated /\ IsCircle(sim.config.drones[1])) =>
        LET d == sim.config.drones[1]
            r == d.motion.radius
            t == sim.trajectories[1]
        IN  /\ Len(t) = sim.config.simulation_steps
            /\ t[1] = d.location
            /\ \A i \in 1 .. Len(t) :
                   /\ t[i][3] = d.location[3]
                   /\ (r - 1) * (r - 1) <= Dist2(t[i], d.location[1] + r, d.location[2])
                   /\ Dist2(t[i], d.location[1] + r, d.location[2]) <= (r + 1) * (r + 1)

\* Three samples of the circle of radius 2.50 around (0.50, 3.00): the second
\* is off the circle by the rounding of 2.5 sin(300 degrees).
C23_Witness ==
    /\ Generated
    /\ IsCircle(sim.config.drones[1])
    /\ sim.config.simulation_steps = 3
    /\ sim.trajectories[1] = <<Aloft, <<175, 83, 150>>, <<175, 517, 150>>>>
    /\ Dist2(sim.trajectories[1][2], 50, 300) # 250 * 250

\* C24: for N >= 1 the generator returns one trajectory per drone, in the
\* order of the drones, each of N points, whatever the has_motion flag, the
\* presence of a motion and the motion type; the trajectory of a drone that
\* is not in motion is its location N times.
C24_OneTrajectoryPerDrone ==
    (sim # None /\ sim.pc = "steps" /\ sim.config.simulation_steps >= 1) =>
        LET drones == sim.config.drones
            N == sim.config.simulation_steps
        IN  /\ Len(sim.trajectories) = Len(drones)
            /\ \A i \in 1 .. Len(drones) :
                   /\ Len(sim.trajectories[i]) = N
                   /\ ~InMotion(drones[i]) =>
                          sim.trajectories[i] = ConstantPath(drones[i], N)

\* ---------------------------------------------------------------------------
\* The encoded results
\* ---------------------------------------------------------------------------

\* C25: decoding the encoded token of an array with the dtype and shape stored
\* alongside it gives the original array bit for bit (same element type, same
\* shape, same bytes), for every element width, for sizes 0 and 1 and for
\* shapes of several dimensions.
C25_RoundTrip ==
    (codec # None /\ codec.pc = "decoded") => codec.decoded = codec.array

\* ---------------------------------------------------------------------------
\* The updates of a run
\* ---------------------------------------------------------------------------

\* The updates of the run so far: (processing, 0) first, then one processing
\* update per finished step, then, once the run is over and only then, one
\* terminal update.
UpdatesInOrder ==
    sim # None /\ sim.pc # "begin" =>
        /\ sim.sent[1] = BeginUpdate
        /\ Len(sim.sent) = 1 + sim.done + (IF sim.pc = "done" THEN 1 ELSE 0)
        /\ \A k \in 1 .. sim.done : UpdateAfterStep(k).status = "processing"
        /\ sim.pc = "done" => Terminal(Last(sim.sent).status)
        /\ \A i \in 1 .. Len(sim.sent) :
               Terminal(sim.sent[i].status) => (sim.pc = "done" /\ i = Len(sim.sent))

\* A per-step computation starts only after the first update and the updates
\* of all earlier steps, and not after the terminal update.
StepStartsAfterUpdates ==
    (sim # None /\ sim' # None /\ Len(sim'.calls) > Len(sim.calls)) =>
        /\ Len(sim'.calls) = Len(sim.calls) + 1
        /\ sim.sent # <<>>
        /\ sim.sent[1] = BeginUpdate
        /\ Len(sim.sent) = Len(sim.calls) + 1
        /\ sim.done = Len(sim.calls)
        /\ ~Terminal(Last(sim.sent).status)

\* C26: within one run the updates are issued in this order: (processing, 0)
\* before any per-step computation, one update after every finished step and
\* before the next step's computation, and one terminal update (completed or
\* failed), which is the last.
C26_UpdateOrder == []UpdatesInOrder /\ [][StepStartsAfterUpdates]_vars

\* A run of three steps whose third computation raised: four updates, the
\* last one failed.
C26_Witness ==
    /\ sim # None
    /\ sim.pc = "done"
    /\ sim.raised
    /\ Len(sim.calls) = 3
    /\ sim.done = 2
    /\ Len(sim.sent) = 4
    /\ Last(sim.sent) = FailedUpdate

\* ---------------------------------------------------------------------------
\* The Poller's scan
\* ---------------------------------------------------------------------------

PollerRuns == {r \in runs : r.by = "poller"}

\* The ids of the backlog whose record is stored as pending, in backlog order.
PendingIds ==
    SelectSeq(jobs, LAMBDA id : id \in DOMAIN redis /\ redis[id].status = "pending")

\* At most one run of the Poller is in progress, and while the Poller is about
\* to fetch, no job of a scan is waiting or running.
OneScanAtATime ==
    /\ Cardinality(PollerRuns) <= 1
    /\ pollerPc = "fetch" => (pending = <<>> /\ PollerRuns = {})

\* A run of the Poller starts for the first waiting job of the scan, when no
\* other of its runs is in progress; the waiting jobs change only by losing
\* their first, or by a fetch that finds no job of the scan left and takes the
\* pending jobs of the list in list order.
ScanInListOrder ==
    /\ (\E r \in PollerRuns' : r.pc = "start" /\ r \notin PollerRuns) =>
           /\ PollerRuns = {}
           /\ pollerPc = "process"
           /\ pending # <<>>
           /\ pending' = Tail(pending)
           /\ PollerRuns' = {NewRun("poller", Head(pending).config)}
    /\ pending' # pending =>
           \/ pending # <<>> /\ pending' = Tail(pending) /\ pollerPc = "process"
           \/ /\ pollerPc = "fetch"
              /\ pending = <<>>
              /\ PollerRuns = {}
              /\ Len(pending') = Len(PendingIds)
              /\ \A n \in 1 .. Len(pending') :
                     /\ pending'[n].id = PendingIds[n]
                     /\ pending'[n].config = JsonLoads(redis[PendingIds[n]].config)

\* C27: within one scan the Poller runs the Executor for the jobs the fetched
\* list showed as pending, in the order of the list, one at a time, and it
\* does not fetch again before every job of the scan has been processed.
C27_ScanOrder == []OneScanAtATime /\ [][ScanInListOrder]_vars

\* The scan found two pending jobs; the run of the first is in progress and
\* the second waits.
C27_Witness ==
    /\ pollerPc = "process"
    /\ Len(pending) = 1
    /\ \E r \in PollerRuns : r.config.job_id # Head(pending).config.job_id

\* The run was aborted by something other than an update: the trajectories
\* raised, a trajectory was missing, or the last computation started did not
\* return.
ComputationFailed ==
    \/ TrajectoriesRaise(sim.config.drones, sim.config.simulation_steps)
    \/ IndexError(sim.config, Trajectories(sim.config.drones, sim.config.simulation_steps))
    \/ Len(sim.calls) = sim.done + 1

\* C28: a failed status update (store unreachable or an answer other than
\* 200) does not abort the run: a run is aborted only by a failing trajectory
\* generation or step, and a run without such a failure computes every step
\* and issues every update, the terminal one included, whatever updates failed.
C28_LostUpdateDoesNotAbort ==
    sim # None =>
        /\ sim.raised => ComputationFailed
        /\ (sim.pc = "done" /\ ~sim.raised) =>
               /\ sim.done = sim.iterations
               /\ Len(sim.calls) = sim.iterations
               /\ Len(sim.sent) = sim.iterations + 2
               /\ Last(sim.sent).status = "completed"
        /\ (sim.pc = "steps" /\ sim.dropped /\ sim.done < sim.iterations) =>
               ENABLED (\E ok, reached \in BOOLEAN : SimStep(ok, reached))

\* A run of three steps in which an update failed has computed all three and
\* sent the completed update.
C28_Witness ==
    /\ sim # None
    /\ sim.dropped
    /\ sim.pc = "done"
    /\ ~sim.raised
    /\ Len(sim.calls) = 3
    /\ Len(sim.sent) = 5

\* C29: on normal completion the result of the completed update holds exactly
\* one entry per executed step (N in synchronized mode, one per combination
\* in independent mode), and the entry of a step holds the positions used in
\* that step and the result of that step's computation.
C29_OneEntryPerStep ==
    SimSucceeded =>
        /\ Last(sim.sent) = StatusUpdate("completed", 100, <<sim.results>>)
        /\ Len(sim.calls) = sim.iterations
        /\ sim.config.move_together => Len(sim.calls) = Count(sim.config.simulation_steps)
        /\ Cardinality(DOMAIN sim.results) = Len(sim.calls)
        /\ \A k \in 1 .. Len(sim.calls) :
               /\ (k - 1) \in DOMAIN sim.results
               /\ sim.results[k - 1] = [drone_locations |-> sim.calls[k].locations,
                                        results |-> sim.calls[k].step]

\* A completed synchronized run of three steps with two drones, one circling:
\* three entries with different positions.
C29_Witness ==
    /\ SimSucceeded
    /\ sim.config.move_together
    /\ Len(sim.config.drones) = 2
    /\ DOMAIN sim.results = {0, 1, 2}
    /\ sim.results[0].drone_locations # sim.results[2].drone_locations

\* ---------------------------------------------------------------------------
\* The start of a run
\* ---------------------------------------------------------------------------

\* The runs that start in this step.
StartedRuns == {r \in runs' \ runs : r.pc = "start"}

\* C30 as stated: a run starts, from the Poller or from a background task,
\* only for a job that is stored as pending at that moment; never for a job
\* that is processing, completed, failed or deleted.
C30_StartsOnlyWhenPending ==
    [][\A r \in StartedRuns :
          /\ r.config.job_id \in Stored
          /\ Job(r.config.job_id).status = "pending"]_vars

\* C30, amended: a run starts only for a job that was stored as pending when
\* its caller learned of it: the Poller starts runs for the waiting jobs of
\* its scan, all stored as pending when the list was fetched, and a background
\* task is queued by the Create that stores the job as pending.  The start
\* itself reads nothing from the store and leaves it unchanged.
C30_PendingWhenLearned ==
    [][/\ \A r \in StartedRuns :
             /\ redis' = redis
             /\ \/ r.by = "poller" /\ pending # <<>> /\ r.config = Head(pending).config
                \/ r.by = "push" /\ tasks # <<>> /\ r.config = Head(tasks)
       /\ (pending' # pending /\ (pending = <<>> \/ pending' # Tail(pending))) =>
             \A i \in 1 .. Len(pending') :
                 /\ pending'[i].id \in Stored
                 /\ redis[pending'[i].id].status = "pending"
       /\ Len(tasks') > Len(tasks) =>
             /\ tasks' = Append(tasks, Last(tasks'))
             /\ Last(tasks').job_id \in DOMAIN redis'
             /\ redis'[Last(tasks').job_id].status = "pending"]_vars

\* A run has started and sent nothing yet, for a job that another run has
\* already completed.
C30_Witness ==
    \E r \in runs :
        /\ r.pc = "start"
        /\ r.config.job_id \in Stored
        /\ Job(r.config.job_id).status = "completed"

\* ---------------------------------------------------------------------------
\* Terminal and deleted jobs
\* ---------------------------------------------------------------------------

\* C31: once a job is stored as completed, its status, progress (100) and
\* result do not change as long as the job is stored: no later update takes
\* it back to processing or to failed, or lowers its progress.
C31_CompletedIsFinal ==
    [][\A id \in Stored :
          (Job(id).status = "completed" /\ id \in DOMAIN redis') =>
              /\ JobOf(redis'[id]).status = "completed"
              /\ JobOf(redis'[id]).progress = 100
              /\ JobOf(redis'[id]).result = Job(id).result]_vars

\* The step in which the run r sends one more status update.
UpdateSent(r) ==
    \E r2 \in runs' \ runs :
        r2.by = r.by /\ r2.config = r.config /\ Len(r2.sent) = Len(r.sent) + 1

\* A run whose job is not stored any more can take its next step.
KeepsRunning(r) ==
    /\ r.pc = "start" => ENABLED RunBegin(r, TRUE)
    /\ CanStep(r) => ENABLED RunStepOk(r, TRUE)
    /\ (r.pc = "steps" /\ r.done = r.total) => ENABLED RunComplete(r, TRUE)
    /\ r.pc = "done" => ENABLED RunReturn(r)

\* C32: a deleted job stays deleted.  A status update that a run sends for an
\* id that is not stored (its job was deleted) changes neither the records nor
\* the backlog, so it re-creates nothing, and the run is not cancelled: it
\* can always take its next step, up to its return.
C32_DeletedStaysDeleted ==
    /\ [](\A r \in runs : r.config.job_id \notin Stored => KeepsRunning(r))
    /\ [][\A r \in runs :
             (r.config.job_id \notin Stored /\ UpdateSent(r)) =>
                 redis' = redis /\ jobs' = jobs]_vars

\* A run has sent all its updates, the last ones answered 404 because its job
\* had been deleted, and there is neither a record nor a backlog entry.
C32_Witness ==
    \E r \in runs :
        /\ r.refused
        /\ r.pc = "done" /\ ~r.raised /\ r.done = r.total
        /\ Last(r.sent).status = "completed"
        /\ r.config.job_id \notin Stored
        /\ Occurrences(r.config.job_id) = 0
        /\ ndeleted = 1

\* C33: job ids are unique within the store.  The backlog never holds an id
\* twice (so the listing never returns a job twice), and a Create leaves every
\* job that is already stored as it was: status, progress, result, config and
\* created_at, also when the client supplies an id that is in use.
C33_IdsUnique ==
    /\ [](\A id \in JobIds : Occurrences(id) <= 1)
    /\ [](\A i, k \in 1 .. Len(ListJobs(redis, jobs)) :
             ListJobs(redis, jobs)[i].id = ListJobs(redis, jobs)[k].id => i = k)
    /\ [][ncreated' = ncreated + 1 =>
             \A id \in Stored : id \in DOMAIN redis' /\ redis'[id] = redis[id]]_vars

====
